---------------------------- MODULE Spec2Model ----------------------------
(***************************************************************************)
(* Personnel record service (Django models, DRF serializers/viewsets and   *)
(* server-rendered views of the employee app) as a state machine over the  *)
(* database tables.                                                        *)
(*                                                                         *)
(* Encoding.  Dates, timestamps and money amounts are small naturals.      *)
(* Python's None is the integer None for numeric/date/key columns and the  *)
(* string NoUser for user columns.  A request payload is a record over all *)
(* writable fields in which a field the client did not send holds Missing  *)
(* (numeric) or MissingS (text): dict.get(k) is Get(data.k).               *)
(***************************************************************************)
EXTENDS Integers, FiniteSets, Sequences, TLC

VARIABLES
    employees,   \* Employee table: pk -> row
    positions,   \* Position table: pk -> row
    departments, \* Department table: pk -> row
    leaves,      \* LeaveRequest table: pk -> row
    attendance,  \* Attendance table: pk -> row
    now,         \* timezone.now(), in days
    inflight,    \* writes between their lookup/validation and save: slot -> request
    request,     \* the request handled last
    response     \* the answer to it

vars == <<employees, positions, departments, leaves, attendance, now, inflight,
         request, response>>

-----------------------------------------------------------------------------
(* Bounds *)

MaxDay == 1
MaxNow == 1
MaxMoney == 3
MaxEmployees == 2
MaxLeaves == 1
MaxSlots == 2
MaxTime == 1
MaxNotesLen == 40
MaxDepartments == 2
MaxPositions == 2
\* The dashboard's window of 30 days and its list limits of 10 (REST) and 5
\* (HTML), scaled to the days and the employees of the model, and the days
\* the clock runs while the list is watched.
RecentWindow == 1
ApiRecentLimit == 2
ViewRecentLimit == 1
MaxRecentNow == 2

-----------------------------------------------------------------------------
(* Values *)

None == 0 - 1
Missing == 0 - 2
NoUser == "none"
MissingS == "<missing>"

Days == 0..MaxDay
Money == 0..MaxMoney
Slots == 1..MaxSlots
Times == 0..MaxTime

\* django.contrib.auth users; created outside the application code.
Users == {"admin", "hr1", "user1", "guest"}
StaffUsers == {"admin"}
HRGroup == {"hr1"}

LeaveStatuses == {"pending", "approved", "rejected", "cancelled"}
LeaveTypes == {"sick", "casual", "annual", "maternity", "paternity", "unpaid"}
EmployeeStatuses == {"active", "on_leave", "terminated", "resigned"}
EmploymentTypes == {"FT", "PT", "CT", "IN", "FR"}

\* dict.get(key): None when the key is absent
Get(v) == IF v = Missing THEN None ELSE v

\* request.data.get(key, default) for text values
GetOr(v, default) == IF v = MissingS THEN default ELSE v

\* truth value of an optional date: a date object is always true
DateSet(v) == v # None /\ v # Missing

\* truth value of an optional Decimal: None and Decimal(0) are false
Truthy(v) == v # None /\ v # Missing /\ v # 0

\* one error message when the condition holds
Err(cond, msg) == IF cond THEN {msg} ELSE {}

\* The key an INSERT gives a new row: one past the largest stored key.
NextPk(table) ==
    IF DOMAIN table = {} THEN 1
    ELSE (CHOOSE k \in DOMAIN table : \A j \in DOMAIN table : j <= k) + 1

Insert(table, row) == [k \in DOMAIN table \cup {NextPk(table)} |->
                          IF k \in DOMAIN table THEN table[k] ELSE row]

-----------------------------------------------------------------------------
(* Requests and responses *)

\* request: what the client asked (row is the candidate row of a write).
\* response: the HTTP status (0 while the handler has not answered), the
\* errors reported (empty on success), the pk of the row concerned and, for
\* a serialized leave request, its total_days.
Req(op, via, actor, pk, data, row) ==
    [op |-> op, via |-> via, actor |-> actor, pk |-> pk, data |-> data, row |-> row]

NoRequest == Req("none", "none", NoUser, None, <<>>, <<>>)

Resp(code, errors, pk, total) ==
    [code |-> code, errors |-> errors, pk |-> pk, total_days |-> total]

NoResponse == Resp(0, {}, None, None)

-----------------------------------------------------------------------------
(* Roles and the user <-> employee link *)

\* request.user.is_staff or request.user.groups.filter(name='HR').exists()
IsHR(user) == user \in StaffUsers \/ user \in HRGroup

\* hasattr(user, 'employee_profile'): the reverse side of Employee.user
HasProfile(user) == \E e \in DOMAIN employees : employees[e].user = user

employee_profile(user) == CHOOSE e \in DOMAIN employees : employees[e].user = user

-----------------------------------------------------------------------------
(* Employee: rows, payloads, validation and save *)

\* A payload in which the client sent no field at all.
NoEmployeeData ==
    [employee_id |-> MissingS, email |-> MissingS, department |-> Missing,
     position |-> Missing, status |-> MissingS, date_joined |-> Missing,
     date_left |-> Missing, salary |-> Missing, manager |-> Missing,
     user |-> MissingS, notes |-> MissingS, employment_type |-> MissingS]

\* Model defaults of the columns a create may leave out.
EmployeeDefaults ==
    [employee_id |-> "", email |-> "", department |-> None, position |-> None,
     status |-> "active", date_joined |-> now, date_left |-> None,
     salary |-> None, manager |-> None, user |-> NoUser, created_by |-> NoUser,
     notes |-> "", employment_type |-> "FT"]

\* ModelSerializer.create / update: every validated attribute is assigned,
\* the others keep the instance's (or the model default's) value.
ApplyEmployeeData(base, data) ==
    [base EXCEPT
       !.employee_id = IF data.employee_id = MissingS THEN @ ELSE data.employee_id,
       !.email       = IF data.email = MissingS THEN @ ELSE data.email,
       !.department  = IF data.department = Missing THEN @ ELSE data.department,
       !.position    = IF data.position = Missing THEN @ ELSE data.position,
       !.status      = IF data.status = MissingS THEN @ ELSE data.status,
       !.date_joined = IF data.date_joined = Missing THEN @ ELSE data.date_joined,
       !.date_left   = IF data.date_left = Missing THEN @ ELSE data.date_left,
       !.salary      = IF data.salary = Missing THEN @ ELSE data.salary,
       !.manager     = IF data.manager = Missing THEN @ ELSE data.manager,
       !.user        = IF data.user = MissingS THEN @ ELSE data.user,
       !.notes       = IF data.notes = MissingS THEN @ ELSE data.notes,
       !.employment_type =
            IF data.employment_type = MissingS THEN @ ELSE data.employment_type]

\* Employee.objects.filter(...).exclude(pk=instance.pk if instance else None)
OtherEmployees(inst) == DOMAIN employees \ {inst}

\* EmployeeCreateUpdateSerializer.validate_email
validate_email(value, inst) ==
    ~ \E e \in OtherEmployees(inst) : employees[e].email = value

\* EmployeeCreateUpdateSerializer.validate_employee_id
validate_employee_id(value, inst) ==
    ~ \E e \in OtherEmployees(inst) : employees[e].employee_id = value

\* Field-level errors of the serializer: required fields (not on a partial
\* update), related rows that must exist, the one-to-one user link, and the
\* two validate_<field> methods.  All of them are collected.
EmployeeFieldErrors(data, inst, partial) ==
    Err(~partial /\ data.employee_id = MissingS, "employee_id: required")
    \cup Err(~partial /\ data.email = MissingS, "email: required")
    \cup Err(~partial /\ data.department = Missing, "department: required")
    \cup Err(~partial /\ data.position = Missing, "position: required")
    \cup Err(data.department # Missing /\ data.department \notin DOMAIN departments,
             "department: does not exist")
    \cup Err(data.position # Missing /\ data.position \notin DOMAIN positions,
             "position: does not exist")
    \cup Err(data.manager \notin {Missing, None} /\ data.manager \notin DOMAIN employees,
             "manager: does not exist")
    \cup Err(data.user \notin {MissingS, NoUser}
             /\ \E e \in OtherEmployees(inst) : employees[e].user = data.user,
             "user: already linked")
    \cup Err(data.employment_type \notin {MissingS} \cup EmploymentTypes,
             "employment_type: not a valid choice")
    \cup Err(data.employee_id # MissingS /\ ~validate_employee_id(data.employee_id, inst),
             "employee_id: exists")
    \cup Err(data.email # MissingS /\ ~validate_email(data.email, inst),
             "email: exists")

\* EmployeeCreateUpdateSerializer.validate: the first failing check raises.
EmployeeCreateUpdateSerializer_validate(data, inst) ==
    IF DateSet(Get(data.date_left)) /\ DateSet(Get(data.date_joined))
       /\ data.date_left < data.date_joined
    THEN {"Date left cannot be before date joined."}
    ELSE IF Truthy(Get(data.salary))
    THEN LET position == IF data.position # Missing THEN data.position
                         ELSE IF inst # None THEN employees[inst].position
                         ELSE None
         IN  IF position = None THEN {}
             ELSE IF Truthy(positions[position].min_salary)
                     /\ data.salary < positions[position].min_salary
             THEN {"Salary cannot be less than position minimum"}
             ELSE IF Truthy(positions[position].max_salary)
                     /\ data.salary > positions[position].max_salary
             THEN {"Salary cannot exceed position maximum"}
             ELSE {}
    ELSE {}

\* serializer.is_valid(): validate() runs only when no field failed.
EmployeeSerializerErrors(data, inst, partial) ==
    IF EmployeeFieldErrors(data, inst, partial) # {}
    THEN EmployeeFieldErrors(data, inst, partial)
    ELSE EmployeeCreateUpdateSerializer_validate(data, inst)

EmployeeUniqueInDb_unconstrained(row, inst) == TRUE

\* unique=True on employee_id and email, and the one-to-one user column: the
\* storage layer refuses a row that collides with another stored row.
EmployeeUniqueInDb(row, inst) ==
    \A e \in OtherEmployees(inst) :
        /\ employees[e].employee_id # row.employee_id
        /\ employees[e].email # row.email
        /\ (row.user = NoUser \/ employees[e].user # row.user)

\* The answer to a failed validation: 400 from the API, the form page again
\* (200) from a view.
Invalid(via, errors, pk) == Resp(IF via = "api" THEN 400 ELSE 200, errors, pk, None)

\* EmployeeForm: an HTML form posts every field of Meta.fields, so a field
\* left empty is cleaned to None and written; user is not a form field.
FormData(data) ==
    [data EXCEPT !.date_left = Get(@), !.salary = Get(@), !.manager = Get(@),
                 !.user = MissingS, !.notes = GetOr(@, "")]

\* EmployeeForm.clean
EmployeeForm_clean(data) ==
    Err(DateSet(Get(data.date_left)) /\ DateSet(Get(data.date_joined))
        /\ data.date_left < data.date_joined,
        "Date left cannot be before date joined.")

\* form.is_valid(): required fields, clean_employee_id, clean_email, clean().
\* A form collects the errors of all of them.
EmployeeFormErrors(data, inst) ==
    Err(data.employee_id = MissingS, "employee_id: required")
    \cup Err(data.email = MissingS, "email: required")
    \cup Err(data.department = Missing, "department: required")
    \cup Err(data.position = Missing, "position: required")
    \cup Err(data.status = MissingS, "status: required")
    \cup Err(data.employment_type \notin EmploymentTypes,
             "employment_type: required, one of the choices")
    \cup Err(data.date_joined = Missing, "date_joined: required")
    \cup Err(data.department # Missing /\ data.department \notin DOMAIN departments,
             "department: does not exist")
    \cup Err(data.position # Missing /\ data.position \notin DOMAIN positions,
             "position: does not exist")
    \cup Err(data.manager \notin {Missing, None} /\ data.manager \notin DOMAIN employees,
             "manager: does not exist")
    \cup Err(data.employee_id # MissingS /\ ~validate_employee_id(data.employee_id, inst),
             "employee_id: exists")
    \cup Err(data.email # MissingS /\ ~validate_email(data.email, inst),
             "email: exists")
    \cup EmployeeForm_clean(data)

\* Validation of an employee write on either interface.
EmployeeErrors(via, data, inst, partial) ==
    IF via = "api" THEN EmployeeSerializerErrors(data, inst, partial)
    ELSE EmployeeFormErrors(data, inst)

EmployeeRow_unstamped(via, actor, data, inst) ==
    LET d == IF via = "api" THEN data ELSE FormData(data)
    IN  ApplyEmployeeData(IF inst = None THEN EmployeeDefaults ELSE employees[inst], d)

\* The row a validated write stores: a create starts from the model defaults
\* and stamps created_by, an edit starts from the stored row.
EmployeeRow(via, actor, data, inst) ==
    LET d == IF via = "api" THEN data ELSE FormData(data)
    IN  IF inst = None
        THEN [ApplyEmployeeData(EmployeeDefaults, d) EXCEPT !.created_by = actor]
        ELSE ApplyEmployeeData(employees[inst], d)

\* save(): INSERT or UPDATE under the table's unique constraints.
SaveEmployee(row, inst) ==
    IF inst = None THEN Insert(employees, row)
    ELSE [employees EXCEPT ![inst] = row]

EmployeeOp(inst, partial) ==
    IF inst = None THEN "employee_create"
    ELSE IF partial THEN "employee_partial_update" ELSE "employee_update"

\* What the handler answers after save(): the unique constraint's
\* IntegrityError is not caught (500), otherwise 201 / 200 / redirect.
EmployeeSaved(via, row, inst) ==
    IF ~EmployeeUniqueInDb(row, inst)
    THEN Resp(500, {"IntegrityError"}, inst, None)
    ELSE Resp(IF via = "form" THEN 302 ELSE IF inst = None THEN 201 ELSE 200, {},
              IF inst = None THEN NextPk(employees) ELSE inst, None)

\* One employee write handled without another request in between:
\* EmployeeViewSet create / update / partial_update (via = "api") and
\* employee_add / employee_update (via = "form").  inst = None is a create.
EmployeeWrite(via, actor, inst, data, partial) ==
    /\ inst = None => NextPk(employees) <= MaxEmployees
    /\ inst # None => inst \in DOMAIN employees
    /\ via = "form" => ~partial
    /\ LET row == EmployeeRow(via, actor, data, inst)
           errors == EmployeeErrors(via, data, inst, partial)
       IN  /\ request' = Req(EmployeeOp(inst, partial), via, actor, inst, data, row)
           /\ IF errors # {}
              THEN /\ response' = Invalid(via, errors, inst)
                   /\ UNCHANGED employees
              ELSE /\ response' = EmployeeSaved(via, row, inst)
                   /\ employees' = IF EmployeeUniqueInDb(row, inst)
                                   THEN SaveEmployee(row, inst) ELSE employees
    /\ UNCHANGED <<positions, departments, leaves, attendance, now, inflight>>

\* The same write as two steps of a request that runs next to others: the
\* handler loads the instance and validates against the rows stored now ...
Idle == [state |-> "idle"]

BeginEmployeeWrite(slot, via, actor, inst, data, partial) ==
    /\ inflight[slot] = Idle
    /\ inst = None => NextPk(employees) <= MaxEmployees
    /\ inst # None => inst \in DOMAIN employees
    /\ via = "form" => ~partial
    /\ LET row == EmployeeRow(via, actor, data, inst)
           errors == EmployeeErrors(via, data, inst, partial)
           req == Req(EmployeeOp(inst, partial), via, actor, inst, data, row)
       IN  /\ request' = req
           /\ IF errors # {}
              THEN /\ response' = Invalid(via, errors, inst)
                   /\ UNCHANGED inflight
              ELSE /\ response' = Resp(0, {}, inst, None)
                   /\ inflight' = [inflight EXCEPT ![slot] =
                                      [state |-> "validated", req |-> req]]
    /\ UNCHANGED <<employees, positions, departments, leaves, attendance, now>>

\* ... and later saves the row it built, under the unique constraints of the
\* rows stored then.
CommitEmployeeWrite(slot) ==
    /\ inflight[slot] # Idle
    /\ LET req == inflight[slot].req
       IN  /\ req.pk = None => NextPk(employees) <= MaxEmployees
           /\ request' = req
           /\ response' = EmployeeSaved(req.via, req.row, req.pk)
           /\ employees' = IF EmployeeUniqueInDb(req.row, req.pk)
                           THEN SaveEmployee(req.row, req.pk) ELSE employees
    /\ inflight' = [inflight EXCEPT ![slot] = Idle]
    /\ UNCHANGED <<positions, departments, leaves, attendance, now>>

-----------------------------------------------------------------------------
(* Position *)

\* IsHROrReadOnly.has_permission for a write
IsHROrReadOnly_write(user) == IsHR(user)

\* PositionViewSet.update / partial_update behind IsHROrReadOnly, and
\* position_update behind login_required only.  Neither PositionSerializer nor
\* PositionForm relates min_salary to max_salary or to the employees' salaries.
PositionUpdate(via, actor, pk, data) ==
    /\ pk \in DOMAIN positions
    /\ request' = Req("position_update", via, actor, pk, data, <<>>)
    /\ IF via = "api" /\ ~IsHROrReadOnly_write(actor)
       THEN /\ response' = Resp(403, {"permission denied"}, pk, None)
            /\ UNCHANGED positions
       ELSE /\ positions' = [positions EXCEPT ![pk] =
                                [min_salary |-> data.min_salary,
                                 max_salary |-> data.max_salary]]
            /\ response' = Resp(IF via = "api" THEN 200 ELSE 302, {}, pk, None)
    /\ UNCHANGED <<employees, departments, leaves, attendance, now, inflight>>

-----------------------------------------------------------------------------
(* LeaveRequest *)

NoLeaveData ==
    [employee |-> Missing, leave_type |-> MissingS, start_date |-> Missing,
     end_date |-> Missing, reason |-> MissingS, status |-> MissingS,
     rejection_reason |-> MissingS]

\* Model defaults: status 'pending', no approver, empty rejection_reason.
LeaveDefaults ==
    [employee |-> None, leave_type |-> "", start_date |-> None, end_date |-> None,
     reason |-> "", status |-> "pending", approved_by |-> NoUser,
     approval_date |-> None, rejection_reason |-> ""]

\* LeaveRequestSerializer.Meta: status and rejection_reason are writable
\* fields; approved_by and approval_date are read-only.
ApplyLeaveData(base, data) ==
    [base EXCEPT
       !.employee   = IF data.employee = Missing THEN @ ELSE data.employee,
       !.leave_type = IF data.leave_type = MissingS THEN @ ELSE data.leave_type,
       !.start_date = IF data.start_date = Missing THEN @ ELSE data.start_date,
       !.end_date   = IF data.end_date = Missing THEN @ ELSE data.end_date,
       !.reason     = IF data.reason = MissingS THEN @ ELSE data.reason,
       !.status     = IF data.status = MissingS THEN @ ELSE data.status,
       !.rejection_reason =
            IF data.rejection_reason = MissingS THEN @ ELSE data.rejection_reason]

total_days_exclusive(leave) == leave.end_date - leave.start_date

\* LeaveRequest.total_days
total_days(leave) == (leave.end_date - leave.start_date) + 1

\* LeaveRequestSerializer.validate: only the dates present in the payload
\* are compared.
LeaveRequestSerializer_validate(data) ==
    Err(DateSet(Get(data.end_date)) /\ DateSet(Get(data.start_date))
        /\ data.end_date < data.start_date,
        "End date cannot be before start date.")

LeaveFieldErrors(data, partial) ==
    Err(~partial /\ data.employee = Missing, "employee: required")
    \cup Err(~partial /\ data.leave_type = MissingS, "leave_type: required")
    \cup Err(~partial /\ data.start_date = Missing, "start_date: required")
    \cup Err(~partial /\ data.end_date = Missing, "end_date: required")
    \cup Err(~partial /\ data.reason = MissingS, "reason: required")
    \cup Err(data.employee # Missing /\ data.employee \notin DOMAIN employees,
             "employee: does not exist")
    \cup Err(data.leave_type # MissingS /\ data.leave_type \notin LeaveTypes,
             "leave_type: not a valid choice")
    \cup Err(data.status # MissingS /\ data.status \notin LeaveStatuses,
             "status: not a valid choice")

LeaveSerializerErrors(data, partial) ==
    IF LeaveFieldErrors(data, partial) # {} THEN LeaveFieldErrors(data, partial)
    ELSE LeaveRequestSerializer_validate(data)

get_queryset_unscoped(user) == DOMAIN leaves

\* LeaveRequestViewSet.get_queryset: a user with an employee profile gets the
\* requests of that employee only, any other user gets all of them.
get_queryset(user) ==
    IF HasProfile(user)
    THEN {k \in DOMAIN leaves : leaves[k].employee = employee_profile(user)}
    ELSE DOMAIN leaves

\* get_object_or_404(LeaveRequest, pk=pk) in the server-rendered views
leave_objects == DOMAIN leaves

\* The rows a handler can fetch.
Fetchable(via, user) == IF via = "api" THEN get_queryset(user) ELSE leave_objects

NotFound(pk) == Resp(404, {"Not found."}, pk, None)

\* LeaveRequestViewSet.create
LeaveCreate(actor, data) ==
    /\ Cardinality(DOMAIN leaves) < MaxLeaves
    /\ LET row == ApplyLeaveData(LeaveDefaults, data)
           errors == LeaveSerializerErrors(data, FALSE)
       IN  /\ request' = Req("leave_create", "api", actor, None, data, <<>>)
           /\ IF errors # {}
              THEN /\ response' = Invalid("api", errors, None)
                   /\ UNCHANGED leaves
              ELSE /\ leaves' = Insert(leaves, row)
                   /\ response' = Resp(201, {}, NextPk(leaves), total_days(row))
    /\ UNCHANGED <<employees, positions, departments, attendance, now, inflight>>

\* LeaveRequestViewSet.update (PUT) and partial_update (PATCH)
LeaveUpdate(actor, pk, data, partial) ==
    /\ pk \in DOMAIN leaves
    /\ LET row == ApplyLeaveData(leaves[pk], data)
           errors == LeaveSerializerErrors(data, partial)
       IN  /\ request' = Req(IF partial THEN "leave_partial_update" ELSE "leave_update",
                             "api", actor, pk, data, <<>>)
           /\ IF pk \notin get_queryset(actor)
              THEN /\ response' = NotFound(pk)
                   /\ UNCHANGED leaves
              ELSE IF errors # {}
              THEN /\ response' = Invalid("api", errors, pk)
                   /\ UNCHANGED leaves
              ELSE /\ leaves' = [leaves EXCEPT ![pk] = row]
                   /\ response' = Resp(200, {}, pk, total_days(row))
    /\ UNCHANGED <<employees, positions, departments, attendance, now, inflight>>

\* LeaveRequestViewSet.retrieve
LeaveRetrieve(actor, pk) ==
    /\ pk \in DOMAIN leaves
    /\ request' = Req("leave_retrieve", "api", actor, pk, <<>>, <<>>)
    /\ response' = IF pk \in get_queryset(actor)
                   THEN Resp(200, {}, pk, total_days(leaves[pk]))
                   ELSE NotFound(pk)
    /\ UNCHANGED <<employees, positions, departments, leaves, attendance, now, inflight>>

Approved_no_actor(leave, user) ==
    [leave EXCEPT !.status = "approved", !.approval_date = now]

\* The row approve() saves.
Approved(leave, user) ==
    [leave EXCEPT !.status = "approved", !.approved_by = user,
                  !.approval_date = now]

Rejected_no_reason(leave, user, rejection_reason) ==
    [leave EXCEPT !.status = "rejected", !.approved_by = user,
                  !.approval_date = now]

\* The row reject() saves.
Rejected(leave, user, rejection_reason) ==
    [leave EXCEPT !.status = "rejected", !.approved_by = user,
                  !.approval_date = now, !.rejection_reason = rejection_reason]

IsPending_unchecked(leave) == leave.status # "cancelled"

\* The guard of approve() and reject().
IsPending(leave) == leave.status = "pending"

\* LeaveRequestViewSet.approve (via = "api": get_object() over get_queryset,
\* 400 when not pending) and leave_request_approve (via = "view":
\* get_object_or_404, an error message and the redirect when not pending).
approve(via, actor, pk) ==
    /\ pk \in DOMAIN leaves
    /\ request' = Req("approve", via, actor, pk, <<>>, <<>>)
    /\ IF pk \notin Fetchable(via, actor)
       THEN /\ response' = NotFound(pk)
            /\ UNCHANGED leaves
       ELSE IF ~IsPending(leaves[pk])
       THEN /\ response' = Resp(IF via = "api" THEN 400 ELSE 302,
                                {"Only pending requests can be approved"}, pk, None)
            /\ UNCHANGED leaves
       ELSE /\ leaves' = [leaves EXCEPT ![pk] = Approved(@, actor)]
            /\ response' = Resp(IF via = "api" THEN 200 ELSE 302, {}, pk,
                                IF via = "api" THEN total_days(leaves[pk]) ELSE None)
    /\ UNCHANGED <<employees, positions, departments, attendance, now, inflight>>

\* LeaveRequestViewSet.reject and leave_request_reject; rejection_reason is
\* request.data.get('rejection_reason', '').
reject(via, actor, pk, rejection_reason) ==
    /\ pk \in DOMAIN leaves
    /\ request' = Req("reject", via, actor, pk,
                      [rejection_reason |-> rejection_reason], <<>>)
    /\ IF pk \notin Fetchable(via, actor)
       THEN /\ response' = NotFound(pk)
            /\ UNCHANGED leaves
       ELSE IF ~IsPending(leaves[pk])
       THEN /\ response' = Resp(IF via = "api" THEN 400 ELSE 302,
                                {"Only pending requests can be rejected"}, pk, None)
            /\ UNCHANGED leaves
       ELSE /\ leaves' = [leaves EXCEPT ![pk] =
                             Rejected(@, actor, GetOr(rejection_reason, ""))]
            /\ response' = Resp(IF via = "api" THEN 200 ELSE 302, {}, pk,
                                IF via = "api" THEN total_days(leaves[pk]) ELSE None)
    /\ UNCHANGED <<employees, positions, departments, attendance, now, inflight>>

\* Time passes between two requests.
Tick ==
    /\ now < MaxNow
    /\ now' = now + 1
    /\ request' = NoRequest
    /\ response' = NoResponse
    /\ UNCHANGED <<employees, positions, departments, leaves, attendance, inflight>>

-----------------------------------------------------------------------------
(* Initial state: the tables after setup.py created the departments and the
   positions (amounts scaled down), no employee, no leave request. *)

Init ==
    /\ employees = <<>>
    /\ positions = (1 :> [min_salary |-> 1, max_salary |-> 2])
                   @@ (2 :> [min_salary |-> 2, max_salary |-> 3])
    /\ departments = (1 :> [is_active |-> TRUE])
    /\ leaves = <<>>
    /\ attendance = <<>>
    /\ now = 0
    /\ inflight = [s \in Slots |-> Idle]
    /\ request = NoRequest
    /\ response = NoResponse

-----------------------------------------------------------------------------
(* Payloads the clients send *)

\* A complete employee payload.
EmployeeData(id, email, position, joined, left, salary) ==
    [NoEmployeeData EXCEPT !.employee_id = id, !.email = email, !.department = 1,
                           !.position = position, !.status = "active",
                           !.employment_type = "FT",
                           !.date_joined = joined, !.date_left = left,
                           !.salary = salary]

\* Two employees with a user account each, as in setup.py's sample data:
\* EMP001 (user1, no role) and EMP002 (hr1, HR group), whose manager is EMP001.
LinkedEmployees ==
    {[EmployeeData("EMP001", "john@x", 1, 0, Missing, Missing) EXCEPT !.user = "user1"],
     [EmployeeData("EMP002", "jane@x", 2, 0, Missing, Missing)
         EXCEPT !.user = "hr1", !.manager = 1]}

\* The users who call the leave endpoints: one without an employee profile
\* and the two linked ones.
LeaveActors == {"admin", "user1", "hr1"}

LeaveData(employee, start, end, status) ==
    [NoLeaveData EXCEPT !.employee = employee, !.leave_type = "sick",
                        !.start_date = start, !.end_date = end,
                        !.reason = "family", !.status = status]

\* POST and PUT bodies: every required field, with or without a status, and
\* one body that lacks the dates.
LeaveBodies ==
    {LeaveData(e, s, t, st) : e \in 1..MaxEmployees, s \in Days, t \in Days,
                              st \in {MissingS, "approved"}}
    \cup {LeaveData(1, Missing, Missing, MissingS)}

\* PATCH bodies: one field each.
LeavePatches ==
    {[NoLeaveData EXCEPT !.status = st] : st \in LeaveStatuses \ {"rejected"}}
    \cup {[NoLeaveData EXCEPT !.start_date = d] : d \in Days}
    \cup {[NoLeaveData EXCEPT !.end_date = d] : d \in Days}
    \cup {[NoLeaveData EXCEPT !.rejection_reason = "busy"]}

RejectionReasons == {MissingS, "busy"}

Interfaces == {"api", "view"}

-----------------------------------------------------------------------------
(* The leave request service *)

CreateLinkedEmployee ==
    \E data \in LinkedEmployees : EmployeeWrite("api", "admin", None, data, FALSE)

CreateLeave == \E actor \in LeaveActors, data \in LeaveBodies : LeaveCreate(actor, data)

PutLeave ==
    \E actor \in LeaveActors, pk \in DOMAIN leaves, data \in LeaveBodies :
        LeaveUpdate(actor, pk, data, FALSE)

PatchLeave ==
    \E actor \in LeaveActors, pk \in DOMAIN leaves, data \in LeavePatches :
        LeaveUpdate(actor, pk, data, TRUE)

RetrieveLeave == \E actor \in LeaveActors, pk \in DOMAIN leaves : LeaveRetrieve(actor, pk)

ApproveLeave ==
    \E via \in Interfaces, actor \in LeaveActors, pk \in DOMAIN leaves : approve(via, actor, pk)

RejectLeave ==
    \E via \in Interfaces, actor \in LeaveActors, pk \in DOMAIN leaves,
       rejection_reason \in RejectionReasons : reject(via, actor, pk, rejection_reason)

Next ==
    \/ CreateLinkedEmployee
    \/ CreateLeave
    \/ PutLeave
    \/ PatchLeave
    \/ RetrieveLeave
    \/ ApproveLeave
    \/ RejectLeave
    \/ Tick

Spec == Init /\ [][Next]_vars

-----------------------------------------------------------------------------
(* Properties of the leave request service *)

TerminalStatuses == {"approved", "rejected", "cancelled"}

\* The step answers an approve or reject call for a stored request.
Decides(op) == request'.op = op /\ request'.pk \in DOMAIN leaves

\* The row the handler resolves the pk to exists for this caller: always in
\* the server-rendered views; through the API every row for a user without an
\* employee profile, otherwise the rows of the user's own employee.
InQueryset(via, user, leave) ==
    \/ via = "view"
    \/ \A e \in DOMAIN employees : employees[e].user # user
    \/ \E e \in DOMAIN employees : employees[e].user = user /\ leave.employee = e

\* C1: approve and reject of a leave request that is not pending, through the
\* REST actions and through the views, answer with an error and leave the
\* whole LeaveRequest table (so every field of the request) unchanged.
C1_NonPendingUntouched ==
    [][ (/\ Decides("approve") \/ Decides("reject")
         /\ leaves[request'.pk].status # "pending")
        => (response'.errors # {} /\ response'.code \in {400, 404, 302}
            /\ leaves' = leaves) ]_vars

C1_Witness ==
    /\ request.op = "reject" /\ request.via = "view"
    /\ request.pk \in DOMAIN leaves
    /\ leaves[request.pk].status = "cancelled"
    /\ response.errors = {"Only pending requests can be rejected"}

C4_TerminalStatusKept ==
    [][ \A k \in DOMAIN leaves :
           leaves[k].status \in TerminalStatuses
           => (k \in DOMAIN leaves' /\ leaves'[k].status = leaves[k].status) ]_vars

\* C5: a leave request is pending right after the create that stored it.
C5_CreatedPending ==
    (request.op = "leave_create" /\ response.errors = {})
    => leaves[response.pk].status = "pending"

\* C6: every stored leave request has end_date >= start_date.
C6_EndNotBeforeStart ==
    \A k \in DOMAIN leaves : leaves[k].end_date >= leaves[k].start_date

\* C7: every serialized leave request reports total_days = end_date -
\* start_date + 1 of the row stored at that moment, which is the number of
\* days from start_date to end_date, both included.
C7_TotalDays ==
    /\ (response.total_days # None /\ response.pk \in DOMAIN leaves)
       => LET leave == leaves[response.pk]
          IN  /\ response.total_days = leave.end_date - leave.start_date + 1
              /\ leave.end_date >= leave.start_date
                 => response.total_days =
                        Cardinality(leave.start_date .. leave.end_date)
    /\ total_days([start_date |-> 0, end_date |-> 4]) = 5
    /\ total_days([start_date |-> 3, end_date |-> 3]) = 1

C7_Witness ==
    /\ request.op = "leave_partial_update"
    /\ request.data.end_date = 1
    /\ response.errors = {}
    /\ leaves[response.pk].start_date = 0
    /\ response.total_days = 2

-----------------------------------------------------------------------------
(* Employee writes: the date rule *)

Identities == {<<"EMP001", "john@x">>, <<"EMP002", "jane@x">>}

\* POST, PUT and form bodies that differ in the two dates.
DateBodies ==
    {EmployeeData(i[1], i[2], 1, j, l, Missing) :
        i \in Identities, j \in Days, l \in {Missing} \cup Days}

\* PATCH bodies with one of the two dates.
DatePatches ==
    {[NoEmployeeData EXCEPT !.date_left = l] : l \in {None} \cup Days}
    \cup {[NoEmployeeData EXCEPT !.date_joined = j] : j \in Days}

Writers == {"admin"}

CreateDated ==
    \E via \in {"api", "form"}, actor \in Writers, data \in DateBodies :
        EmployeeWrite(via, actor, None, data, FALSE)

UpdateDated ==
    \E via \in {"api", "form"}, actor \in Writers, pk \in DOMAIN employees,
       data \in DateBodies : EmployeeWrite(via, actor, pk, data, FALSE)

PatchDated ==
    \E actor \in Writers, pk \in DOMAIN employees, data \in DatePatches :
        EmployeeWrite("api", actor, pk, data, TRUE)

NextDates == CreateDated \/ UpdateDated \/ PatchDated \/ Tick

SpecDates == Init /\ [][NextDates]_vars

EmployeeWriteOps == {"employee_create", "employee_update", "employee_partial_update"}

\* The step answers an employee create or edit.
AnswersEmployeeWrite == request'.op \in EmployeeWriteOps /\ response'.code # 0

\* C8: an employee create or update whose resulting record would have
\* date_left before date_joined answers with a validation error and leaves
\* the Employee table unchanged.
C8_DateLeftNotBeforeJoined ==
    [][ (/\ AnswersEmployeeWrite
         /\ DateSet(request'.row.date_left) /\ DateSet(request'.row.date_joined)
         /\ request'.row.date_left < request'.row.date_joined)
        => (response'.errors # {} /\ employees' = employees) ]_vars

-----------------------------------------------------------------------------
(* Employee writes: the salary rule *)

\* Bodies for one employee that differ in position and salary.
SalaryBodies ==
    {EmployeeData("EMP001", "john@x", p, 0, Missing, sal) :
        p \in DOMAIN positions, sal \in {Missing} \cup Money}

SalaryPatches ==
    {[NoEmployeeData EXCEPT !.salary = sal] : sal \in {None} \cup Money}
    \cup {[NoEmployeeData EXCEPT !.position = p] : p \in DOMAIN positions}

\* Salary ranges a position is edited to: no bound, bounds of 0, a range,
\* and one bound only.
PositionBodies ==
    {[min_salary |-> None, max_salary |-> None],
     [min_salary |-> 0, max_salary |-> 0],
     [min_salary |-> 1, max_salary |-> 2],
     [min_salary |-> None, max_salary |-> 2],
     [min_salary |-> 2, max_salary |-> None]}

CreateSalaried ==
    \E via \in {"api", "form"}, actor \in Writers, data \in SalaryBodies :
        EmployeeWrite(via, actor, None, data, FALSE)

UpdateSalaried ==
    \E via \in {"api", "form"}, actor \in Writers, pk \in DOMAIN employees,
       data \in SalaryBodies : EmployeeWrite(via, actor, pk, data, FALSE)

PatchSalaried ==
    \E actor \in Writers, pk \in DOMAIN employees, data \in SalaryPatches :
        EmployeeWrite("api", actor, pk, data, TRUE)

EditPosition ==
    \E via \in {"api", "form"}, actor \in {"admin", "user1"}, pk \in DOMAIN positions,
       data \in PositionBodies : PositionUpdate(via, actor, pk, data)

NextSalary == CreateSalaried \/ UpdateSalaried \/ PatchSalaried \/ EditPosition

SpecSalary == Init /\ [][NextSalary]_vars

\* The salary lies outside the range of the position, where a bound is set.
OutsideRange(salary, position) ==
    /\ salary # None
    /\ \/ position.min_salary # None /\ salary < position.min_salary
       \/ position.max_salary # None /\ salary > position.max_salary

\* C9: an employee save whose resulting salary lies outside the range of the
\* resulting position answers with an error and leaves the Employee table
\* unchanged, on every save path.
C9_SalaryWithinRange ==
    [][ (/\ AnswersEmployeeWrite
         /\ request'.row.position \in DOMAIN positions
         /\ OutsideRange(request'.row.salary, positions[request'.row.position]))
        => (response'.errors # {} /\ employees' = employees) ]_vars

-----------------------------------------------------------------------------
(* Employee writes that run next to each other: uniqueness *)

\* Bodies that differ in employee_id and email.
IdentityBodies ==
    {EmployeeData(id, email, 1, 0, Missing, Missing) :
        id \in {"EMP001", "EMP002"}, email \in {"john@x", "jane@x"}}

\* Partial bodies with one identity field; whether the value is the edited
\* employee's own or another's depends on the rows stored.
IdentityPatches ==
    {[NoEmployeeData EXCEPT !.employee_id = "EMP001"],
     [NoEmployeeData EXCEPT !.email = "jane@x"]}

BeginCreate ==
    \E slot \in Slots, via \in {"api", "form"}, actor \in Writers,
       data \in IdentityBodies :
        BeginEmployeeWrite(slot, via, actor, None, data, FALSE)

BeginFormEdit ==
    \E slot \in Slots, actor \in Writers, pk \in DOMAIN employees,
       data \in IdentityBodies :
        BeginEmployeeWrite(slot, "form", actor, pk, data, FALSE)

BeginPatch ==
    \E slot \in Slots, actor \in Writers, pk \in DOMAIN employees,
       data \in IdentityPatches :
        BeginEmployeeWrite(slot, "api", actor, pk, data, TRUE)

Commit == \E slot \in Slots : CommitEmployeeWrite(slot)

NextRace == BeginCreate \/ BeginFormEdit \/ BeginPatch \/ Commit

SpecRace == Init /\ [][NextRace]_vars

UniquenessErrors == {"employee_id: exists", "email: exists", "IntegrityError"}

\* C10: no two stored employees share an employee_id or an email, also when
\* writes are interleaved; a write that succeeded stored its row; and an edit
\* is refused for uniqueness only when its employee_id or email is that of
\* another stored employee, so never when it keeps its own.
C10_UniqueIdentity ==
    /\ \A a \in DOMAIN employees : \A b \in DOMAIN employees :
          a # b => /\ employees[a].employee_id # employees[b].employee_id
                   /\ employees[a].email # employees[b].email
    /\ (request.op \in EmployeeWriteOps /\ response.code # 0 /\ response.errors = {})
       => employees[response.pk] = request.row
    /\ (/\ request.op \in {"employee_update", "employee_partial_update"}
        /\ response.errors \cap UniquenessErrors # {})
       => \E e \in DOMAIN employees \ {request.pk} :
             \/ employees[e].employee_id = request.row.employee_id
             \/ employees[e].email = request.row.email

\* Two creates with the same employee_id passed validation side by side and
\* the second save was refused by the unique constraint.
C10_Witness ==
    /\ request.op = "employee_create"
    /\ response.errors = {"IntegrityError"}
    /\ \E e \in DOMAIN employees :
          /\ employees[e].employee_id = request.row.employee_id
          /\ employees[e].email # request.row.email

-----------------------------------------------------------------------------
(* Attendance *)

AttendanceStatuses == {"present", "absent", "half_day", "late", "on_leave"}

NoAttendanceData ==
    [employee |-> Missing, date |-> Missing, check_in |-> Missing,
     check_out |-> Missing, status |-> MissingS]

\* Model defaults: no times, status 'present'.
AttendanceDefaults ==
    [employee |-> None, date |-> None, check_in |-> None, check_out |-> None,
     status |-> "present"]

ApplyAttendanceData(base, data) ==
    [base EXCEPT
       !.employee  = IF data.employee = Missing THEN @ ELSE data.employee,
       !.date      = IF data.date = Missing THEN @ ELSE data.date,
       !.check_in  = IF data.check_in = Missing THEN @ ELSE data.check_in,
       !.check_out = IF data.check_out = Missing THEN @ ELSE data.check_out,
       !.status    = IF data.status = MissingS THEN @ ELSE data.status]

\* Attendance.objects.filter(employee_id=..., date=...)
AttendanceOf(table, employee, date) ==
    {k \in DOMAIN table : table[k].employee = employee /\ table[k].date = date}

AttendanceStorable_unconstrained(table, row, pk) == TRUE

\* Meta.unique_together = ['employee', 'date'], and the foreign key to
\* Employee: what the storage layer accepts for the row stored under pk
\* (None for an INSERT).
AttendanceStorable(table, row, pk) ==
    /\ row.employee \in DOMAIN employees
    /\ AttendanceOf(table, row.employee, row.date) \subseteq {pk}

\* The upsert without its lookup: always an INSERT.
always_create(table, employee, date, status) ==
    Insert(table, [AttendanceDefaults EXCEPT !.employee = employee, !.date = date,
                                             !.status = status])

\* Attendance.objects.update_or_create(employee_id=, date=, defaults={'status':}):
\* the row with that key gets the status, or a new row is inserted.
update_or_create(table, employee, date, status) ==
    IF AttendanceOf(table, employee, date) # {}
    THEN LET k == CHOOSE k \in AttendanceOf(table, employee, date) : TRUE
         IN  [table EXCEPT ![k].status = status]
    ELSE Insert(table, [AttendanceDefaults EXCEPT !.employee = employee,
                                                  !.date = date, !.status = status])

\* The loop of bulk_mark over employee_ids: each item is saved on its own; the
\* INSERT for an identifier without an employee row raises IntegrityError,
\* which nothing catches, so the loop ends there.
RECURSIVE bulk_mark_loop(_, _, _, _)
bulk_mark_loop(table, employee_ids, date, status) ==
    IF employee_ids = <<>> THEN [table |-> table, failed |-> FALSE]
    ELSE IF Head(employee_ids) \notin DOMAIN employees
            /\ AttendanceOf(table, Head(employee_ids), date) = {}
    THEN [table |-> table, failed |-> TRUE]
    ELSE bulk_mark_loop(update_or_create(table, Head(employee_ids), date, status),
                        Tail(employee_ids), date, status)

\* AttendanceViewSet.bulk_mark
bulk_mark(actor, date, employee_ids, status) ==
    /\ request' = Req("bulk_mark", "api", actor, None,
                      [date |-> date, employee_ids |-> employee_ids, status |-> status],
                      <<>>)
    /\ IF ~DateSet(Get(date)) \/ employee_ids = <<>>
       THEN /\ response' = Resp(400, {"Date and employee_ids are required"}, None, None)
            /\ UNCHANGED attendance
       ELSE LET done == bulk_mark_loop(attendance, employee_ids, date,
                                       GetOr(status, "present"))
            IN  /\ attendance' = done.table
                /\ response' = IF done.failed
                               THEN Resp(500, {"IntegrityError"}, None, None)
                               ELSE Resp(201, {}, None, None)
    /\ UNCHANGED <<employees, positions, departments, leaves, now, inflight>>

\* AttendanceSerializer.validate: only the times present in the payload are
\* compared.
AttendanceSerializer_validate(data) ==
    Err(DateSet(Get(data.check_out)) /\ DateSet(Get(data.check_in))
        /\ data.check_out < data.check_in,
        "Check-out time cannot be before check-in time.")

\* Field validation, then the UniqueTogetherValidator the ModelSerializer
\* derives from unique_together (a partial update takes the fields it lacks
\* from the instance), then validate().
AttendanceSerializerErrors(data, inst, partial) ==
    LET fields ==
            Err(~partial /\ data.employee = Missing, "employee: required")
            \cup Err(~partial /\ data.date = Missing, "date: required")
            \cup Err(data.employee # Missing /\ data.employee \notin DOMAIN employees,
                     "employee: does not exist")
            \cup Err(data.status # MissingS /\ data.status \notin AttendanceStatuses,
                     "status: not a valid choice")
        row == ApplyAttendanceData(IF inst = None THEN AttendanceDefaults
                                   ELSE attendance[inst], data)
    IN  IF fields # {} THEN fields
        ELSE IF AttendanceOf(attendance, row.employee, row.date) \ {inst} # {}
        THEN {"The fields employee, date must make a unique set."}
        ELSE AttendanceSerializer_validate(data)

\* AttendanceViewSet create (inst = None), update and partial_update
AttendanceWrite(actor, inst, data, partial) ==
    /\ inst # None => inst \in DOMAIN attendance
    /\ LET row == ApplyAttendanceData(IF inst = None THEN AttendanceDefaults
                                      ELSE attendance[inst], data)
           errors == AttendanceSerializerErrors(data, inst, partial)
           op == IF inst = None THEN "attendance_create"
                 ELSE IF partial THEN "attendance_partial_update"
                 ELSE "attendance_update"
       IN  /\ request' = Req(op, "api", actor, inst, data, row)
           /\ IF errors # {}
              THEN /\ response' = Invalid("api", errors, inst)
                   /\ UNCHANGED attendance
              ELSE IF inst = None
              THEN /\ attendance' = Insert(attendance, row)
                   /\ response' = Resp(201, {}, NextPk(attendance), None)
              ELSE /\ attendance' = [attendance EXCEPT ![inst] = row]
                   /\ response' = Resp(200, {}, inst, None)
    /\ UNCHANGED <<employees, positions, departments, leaves, now, inflight>>

-----------------------------------------------------------------------------
(* The attendance service *)

\* employee_ids is a list of one or two identifiers, or the empty list; the
\* date and the status may be absent.
BulkMarkAttendance ==
    \E date \in Days \cup {Missing}, status \in {MissingS, "late"},
       employee_ids \in {<<>>} \cup {<<a>> : a \in 1..MaxEmployees}
                        \cup {<<a, b>> : a \in 1..MaxEmployees, b \in 1..MaxEmployees} :
        bulk_mark("user1", date, employee_ids, status)

\* A POST with both times, for the first employee on the first day.
CreateAttendance ==
    AttendanceWrite("user1", None,
                    [NoAttendanceData EXCEPT !.employee = 1, !.date = 0,
                                             !.check_in = 0, !.check_out = MaxTime],
                    FALSE)

NextAttendance ==
    \/ CreateLinkedEmployee
    \/ BulkMarkAttendance
    \/ CreateAttendance

SpecAttendance == Init /\ [][NextAttendance]_vars

\* A bulk_mark that got past its required-fields check.
Marks == request'.op = "bulk_mark" /\ response'.code # 400

\* C11: marking is an idempotent upsert on (employee, date).  No two stored
\* rows share an (employee, date) pair; after a mark that succeeded every
\* marked pair has exactly one row and that row has the status of this, the
\* latest, mark; and marking again with the same status changes nothing.
C11_IdempotentUpsert ==
    [][ /\ \A a \in DOMAIN attendance' : \A b \in DOMAIN attendance' :
              (/\ attendance'[a].employee = attendance'[b].employee
               /\ attendance'[a].date = attendance'[b].date) => a = b
        /\ (Marks /\ response'.errors = {})
           => LET d == request'.data
                  status == GetOr(d.status, "present")
              IN  /\ \A i \in 1..Len(d.employee_ids) :
                        LET rows == AttendanceOf(attendance', d.employee_ids[i], d.date)
                        IN  /\ Cardinality(rows) = 1
                            /\ \A k \in rows : attendance'[k].status = status
                  /\ bulk_mark_loop(attendance', d.employee_ids, d.date, status).table
                        = attendance' ]_vars

\* The same pair was marked again with another status: one row, new status.
C11_Witness ==
    /\ request.op = "bulk_mark"
    /\ response.code = 201
    /\ request.data.status = "late"
    /\ request.data.employee_ids = <<1, 1>>
    /\ \E k \in DOMAIN attendance :
          /\ attendance[k].employee = 1 /\ attendance[k].date = request.data.date
          /\ attendance[k].status = "late"
          /\ attendance[k].check_in # None

\* C13: in a bulk mark, an identifier without an employee row fails on its
\* own: every identifier of the list that does resolve to an employee,
\* before or after it, has its row with the shared date and status.
C13_BadIdentifierFailsAlone ==
    [][ Marks
        => LET d == request'.data
           IN  \A i \in 1..Len(d.employee_ids) :
                  d.employee_ids[i] \in DOMAIN employees
                  => \E k \in AttendanceOf(attendance', d.employee_ids[i], d.date) :
                        attendance'[k].status = GetOr(d.status, "present") ]_vars

-----------------------------------------------------------------------------
(* Attendance writes that run next to each other *)

\* update_or_create for one identifier, first step: the lookup by
\* (employee, date).  found is the row's pk, or None.
BeginMark(slot, actor, employee, date, status) ==
    /\ inflight[slot] = Idle
    /\ LET found == IF AttendanceOf(attendance, employee, date) = {} THEN None
                    ELSE CHOOSE k \in AttendanceOf(attendance, employee, date) : TRUE
           req == Req("bulk_mark", "api", actor, found,
                      [date |-> date, employee_ids |-> <<employee>>, status |-> status],
                      [AttendanceDefaults EXCEPT !.employee = employee, !.date = date,
                                                 !.status = status])
       IN  /\ inflight' = [inflight EXCEPT ![slot] = [state |-> "looked up", req |-> req]]
           /\ request' = req
           /\ response' = Resp(0, {}, found, None)
    /\ UNCHANGED <<employees, positions, departments, leaves, attendance, now>>

\* Second step.  A row that was found gets the status.  Otherwise the row is
\* inserted; when the unique constraint refuses it (another request inserted
\* the key meanwhile) get_or_create fetches that row and it gets the status.
CommitMark(slot) ==
    /\ inflight[slot] # Idle
    /\ inflight[slot].state = "looked up"
    /\ LET req == inflight[slot].req
           row == req.row
           now_there == AttendanceOf(attendance, row.employee, row.date)
       IN  /\ request' = req
           /\ IF req.pk # None
              THEN /\ attendance' = [attendance EXCEPT ![req.pk].status = row.status]
                   /\ response' = Resp(201, {}, req.pk, None)
              ELSE IF AttendanceStorable(attendance, row, None)
              THEN /\ attendance' = Insert(attendance, row)
                   /\ response' = Resp(201, {}, NextPk(attendance), None)
              ELSE IF now_there # {}
              THEN LET k == CHOOSE k \in now_there : TRUE
                   IN  /\ attendance' = [attendance EXCEPT ![k].status = row.status]
                       /\ response' = Resp(201, {}, k, None)
              ELSE /\ UNCHANGED attendance
                   /\ response' = Resp(500, {"IntegrityError"}, None, None)
    /\ inflight' = [inflight EXCEPT ![slot] = Idle]
    /\ UNCHANGED <<employees, positions, departments, leaves, now>>

\* AttendanceViewSet.create, first step: serializer.is_valid() ...
BeginAttendanceCreate(slot, actor, data) ==
    /\ inflight[slot] = Idle
    /\ LET row == ApplyAttendanceData(AttendanceDefaults, data)
           errors == AttendanceSerializerErrors(data, None, FALSE)
           req == Req("attendance_create", "api", actor, None, data, row)
       IN  /\ request' = req
           /\ IF errors # {}
              THEN /\ response' = Invalid("api", errors, None)
                   /\ UNCHANGED inflight
              ELSE /\ response' = Resp(0, {}, None, None)
                   /\ inflight' = [inflight EXCEPT ![slot] =
                                      [state |-> "valid", req |-> req]]
    /\ UNCHANGED <<employees, positions, departments, leaves, attendance, now>>

\* ... second step: serializer.save(), an INSERT; its IntegrityError is not
\* caught.
CommitAttendanceCreate(slot) ==
    /\ inflight[slot] # Idle
    /\ inflight[slot].state = "valid"
    /\ LET req == inflight[slot].req
       IN  /\ request' = req
           /\ IF AttendanceStorable(attendance, req.row, None)
              THEN /\ attendance' = Insert(attendance, req.row)
                   /\ response' = Resp(201, {}, NextPk(attendance), None)
              ELSE /\ UNCHANGED attendance
                   /\ response' = Resp(500, {"IntegrityError"}, None, None)
    /\ inflight' = [inflight EXCEPT ![slot] = Idle]
    /\ UNCHANGED <<employees, positions, departments, leaves, now>>

\* The writes contend for the keys of the first employee.
StartMark ==
    \E slot \in Slots, date \in Days, status \in {"absent", "late"} :
        BeginMark(slot, "user1", 1, date, status)

FinishMark == \E slot \in Slots : CommitMark(slot)

StartCreate ==
    \E slot \in Slots, date \in Days :
        BeginAttendanceCreate(slot, "user1",
            [NoAttendanceData EXCEPT !.employee = 1, !.date = date, !.check_in = 0])

FinishCreate == \E slot \in Slots : CommitAttendanceCreate(slot)

NextMarkRace ==
    \/ CreateLinkedEmployee
    \/ StartMark
    \/ FinishMark
    \/ StartCreate
    \/ FinishCreate

SpecMarkRace == Init /\ [][NextMarkRace]_vars

\* C12: with interleaved attendance writes the table never holds two rows
\* for one (employee, date) key; a write that commits leaves the key's one
\* row with its own status, and nothing but a committing write changes the
\* table, so the row carries the status of the write that committed last.
C12_LastCommitWins ==
    [][ /\ \A a \in DOMAIN attendance' : \A b \in DOMAIN attendance' :
              (/\ attendance'[a].employee = attendance'[b].employee
               /\ attendance'[a].date = attendance'[b].date) => a = b
        /\ (/\ request'.op \in {"bulk_mark", "attendance_create"}
            /\ response'.code = 201)
           => \E k \in DOMAIN attendance' :
                 /\ AttendanceOf(attendance', request'.row.employee, request'.row.date)
                       = {k}
                 /\ attendance'[k].status = request'.row.status
        /\ attendance' # attendance
           => (/\ request'.op \in {"bulk_mark", "attendance_create"}
               /\ response'.code = 201) ]_vars

\* A mark looked its key up and found no row, a create inserted the key
\* (with a check-in time) before the mark wrote, and the mark then updated
\* that row.
C12_Witness ==
    /\ request.op = "bulk_mark"
    /\ request.pk = None
    /\ response.code = 201
    /\ response.pk \in DOMAIN attendance
    /\ attendance[response.pk].check_in = 0
    /\ attendance[response.pk].status = "late"

-----------------------------------------------------------------------------
(* Attendance records with times *)

\* POST and PUT bodies: each time is a time, null or absent.
TimedBodies ==
    {[NoAttendanceData EXCEPT !.employee = 1, !.date = 0, !.check_in = i,
                              !.check_out = o] :
        i \in Times \cup {Missing, None}, o \in Times \cup {Missing, None}}

CreateTimed == \E data \in TimedBodies : AttendanceWrite("user1", None, data, FALSE)

PutTimed ==
    \E pk \in DOMAIN attendance, data \in TimedBodies :
        AttendanceWrite("user1", pk, data, FALSE)

\* PATCH bodies: one of the two times, or a status, which may be a text that
\* is none of the choices.
PatchTimed ==
    \E pk \in DOMAIN attendance,
       data \in {[NoAttendanceData EXCEPT !.check_in = i] : i \in Times}
                \cup {[NoAttendanceData EXCEPT !.check_out = o] : o \in Times}
                \cup {[NoAttendanceData EXCEPT !.status = st] :
                         st \in {"absent", "vacation"}} :
        AttendanceWrite("user1", pk, data, TRUE)

\* bulk_mark with no status, a status of the choices, or any other text.
MarkTimed ==
    \E status \in {MissingS, "late", "vacation"} : bulk_mark("user1", 0, <<1>>, status)

NextTimes ==
    \/ CreateLinkedEmployee
    \/ CreateTimed
    \/ PutTimed
    \/ PatchTimed
    \/ MarkTimed

SpecTimes == Init /\ [][NextTimes]_vars

\* C14: every stored attendance record that has both check_in and check_out
\* has check_out >= check_in.
C14_CheckOutNotBeforeCheckIn ==
    \A k \in DOMAIN attendance :
        (attendance[k].check_in # None /\ attendance[k].check_out # None)
        => attendance[k].check_out >= attendance[k].check_in

-----------------------------------------------------------------------------
(* Employee: terminate, delete, dashboard *)

\* str() of the value assigned to date_left, as the f-string formats it
DateStr(date_left) == IF date_left = None THEN "None" ELSE ToString(date_left)

\* The block terminate appends to the notes
TerminationBlock(date_left, reason) ==
    "\n\nTermination Date: " \o DateStr(date_left) \o "\nReason: " \o reason

Terminated_notes_replaced(employee, date_left, reason) ==
    [employee EXCEPT !.status = "terminated", !.date_left = date_left,
                     !.notes = TerminationBlock(date_left, reason)]

\* The assignments of terminate
Terminated(employee, date_left, reason) ==
    [employee EXCEPT !.status = "terminated", !.date_left = date_left,
                     !.notes = @ \o TerminationBlock(date_left, reason)]

\* EmployeeViewSet.terminate: date_left defaults to today, reason to ''; the
\* current status is not looked at.
terminate(actor, pk, date_left, reason) ==
    /\ request' = Req("terminate", "api", actor, pk,
                      [date_left |-> date_left, reason |-> reason], <<>>)
    /\ IF pk \notin DOMAIN employees
       THEN /\ response' = NotFound(pk)
            /\ UNCHANGED employees
       ELSE /\ Len(employees[pk].notes) < MaxNotesLen
            /\ employees' = [employees EXCEPT ![pk] =
                                Terminated(@, IF date_left = Missing THEN now
                                              ELSE date_left,
                                           GetOr(reason, ""))]
            /\ response' = Resp(200, {}, pk, None)
    /\ UNCHANGED <<positions, departments, leaves, attendance, now, inflight>>

\* A table without the rows of a set of keys
Without(table, keys) == [k \in DOMAIN table \ keys |-> table[k]]

\* EmployeeViewSet.destroy and employee_delete: the employee's leave requests
\* and attendance records go with it (CASCADE) and the employees it managed
\* lose their manager (SET_NULL).
employee_delete(via, actor, pk) ==
    /\ request' = Req("employee_delete", via, actor, pk, <<>>, <<>>)
    /\ IF pk \notin DOMAIN employees
       THEN /\ response' = NotFound(pk)
            /\ UNCHANGED <<employees, leaves, attendance>>
       ELSE /\ employees' = [k \in DOMAIN employees \ {pk} |->
                                IF employees[k].manager = pk
                                THEN [employees[k] EXCEPT !.manager = None]
                                ELSE employees[k]]
            /\ leaves' = Without(leaves, {k \in DOMAIN leaves : leaves[k].employee = pk})
            /\ attendance' = Without(attendance, {k \in DOMAIN attendance :
                                                     attendance[k].employee = pk})
            /\ response' = Resp(IF via = "api" THEN 204 ELSE 302, {}, pk, None)
    /\ UNCHANGED <<positions, departments, now, inflight>>

total_employees == Cardinality(DOMAIN employees)

all_employees == Cardinality(DOMAIN employees)

\* Employee.objects.filter(status='active').count()
active_employees ==
    Cardinality({e \in DOMAIN employees : employees[e].status = "active"})

\* Position of an employee_id in the order of Meta.ordering = ['employee_id'].
IdRank(employee_id) ==
    CASE employee_id = "EMP001" -> 1
      [] employee_id = "EMP002" -> 2
      [] OTHER -> 0

\* Employee.objects.filter(date_joined__gte=thirty_days_ago): no upper end.
JoinedSince(day) == {e \in DOMAIN employees : employees[e].date_joined >= day}

\* A queryset of employees in the default order, by employee_id.
RECURSIVE OrderedByEmployeeId(_)
OrderedByEmployeeId(rows) ==
    IF rows = {} THEN <<>>
    ELSE LET first == CHOOSE e \in rows : \A o \in rows :
                          IdRank(employees[e].employee_id) <= IdRank(employees[o].employee_id)
         IN  <<first>> \o OrderedByEmployeeId(rows \ {first})

\* queryset[:limit]
Slice(rows, limit) == SubSeq(rows, 1, IF Len(rows) < limit THEN Len(rows) ELSE limit)

\* recent_hires: the employees who joined since thirtyDaysAgo, in the default
\* order, cut to the first 10 (dashboard_stats) or 5 (dashboard).
recent_hires(via) ==
    Slice(OrderedByEmployeeId(JoinedSince(now - RecentWindow)),
          IF via = "api" THEN ApiRecentLimit ELSE ViewRecentLimit)

\* Employee.objects.filter(status='on_leave').count()
on_leave == Cardinality({e \in DOMAIN employees : employees[e].status = "on_leave"})

\* Department.objects.filter(is_active=True).count()
total_departments == Cardinality({d \in DOMAIN departments : departments[d].is_active})

\* LeaveRequest.objects.filter(status='pending').count()
pending_leave_requests ==
    Cardinality({k \in DOMAIN leaves : leaves[k].status = "pending"})

\* Every active department with the number of its active employees.  The
\* dictionary is keyed by Department.name, which is unique, so it has one key
\* per department.
employees_by_department ==
    [d \in {d \in DOMAIN departments : departments[d].is_active} |->
        Cardinality({e \in DOMAIN employees :
                        employees[e].department = d /\ employees[e].status = "active"})]

employees_by_type_any_status ==
    [t \in {employees[e].employment_type : e \in DOMAIN employees} |->
        Cardinality({e \in DOMAIN employees : employees[e].employment_type = t})]

\* The active employees grouped by employment_type, with the size of each
\* group (GROUP BY employment_type).
employees_by_employment_type ==
    LET active == {e \in DOMAIN employees : employees[e].status = "active"}
    IN  [t \in {employees[e].employment_type : e \in active} |->
            Cardinality({e \in active : employees[e].employment_type = t})]

\* EmployeeViewSet.dashboard_stats and dashboard: both read the same counts
\* and the recent hires; dashboard_stats adds the two dictionaries.
dashboard(via, actor) ==
    /\ request' = Req("dashboard", via, actor, None, <<>>, <<>>)
    /\ response' = Resp(200, {}, None, None)
                   @@ [total_employees |-> total_employees,
                       active_employees |-> active_employees,
                       on_leave |-> on_leave,
                       total_departments |-> total_departments,
                       pending_leave_requests |-> pending_leave_requests,
                       recent_hires |-> recent_hires(via)]
                   @@ (IF via = "api"
                       THEN [employees_by_department |-> employees_by_department,
                             employees_by_employment_type |->
                                 employees_by_employment_type]
                       ELSE <<>>)
    /\ UNCHANGED <<employees, positions, departments, leaves, attendance, now, inflight>>

-----------------------------------------------------------------------------
(* Terminating an employee *)

StatusPatches == {[NoEmployeeData EXCEPT !.status = st] : st \in EmployeeStatuses}

\* One employee, with or without notes, who joined on any day of the model.
HireNoted ==
    \E notes \in {MissingS, "n"}, joined \in Days :
        EmployeeWrite("api", "admin", None,
                      [EmployeeData("EMP001", "john@x", 1, joined, Missing, Missing)
                          EXCEPT !.notes = notes],
                      FALSE)

PatchStatus ==
    \E pk \in DOMAIN employees, data \in StatusPatches :
        EmployeeWrite("api", "admin", pk, data, TRUE)

\* The request carries a date, null or no date, and a reason or none.
Terminate ==
    \E pk \in 1..MaxEmployees, date_left \in Days \cup {Missing, None},
       reason \in {MissingS, "resignation"} :
        terminate("user1", pk, date_left, reason)

NextTerminate == HireNoted \/ PatchStatus \/ Terminate \/ Tick

SpecTerminate == Init /\ [][NextTerminate]_vars

-----------------------------------------------------------------------------
(* The employee records over their life *)

StaffActors == {"admin", "user1"}

StaffBodies ==
    {EmployeeData(i[1], i[2], 1, 0, Missing, Missing) : i \in Identities}

Hire ==
    \E via \in {"api", "form"}, actor \in StaffActors, data \in StaffBodies :
        EmployeeWrite(via, actor, None, data, FALSE)

EditStaff ==
    \E via \in {"api", "form"}, actor \in StaffActors, pk \in DOMAIN employees,
       data \in StaffBodies :
        EmployeeWrite(via, actor, pk, data, FALSE)

PatchStaff ==
    \E actor \in StaffActors, pk \in DOMAIN employees, data \in StatusPatches :
        EmployeeWrite("api", actor, pk, data, TRUE)

TerminateStaff ==
    \E actor \in StaffActors, pk \in DOMAIN employees :
        employees[pk].notes = "" /\ terminate(actor, pk, Missing, "resignation")

DeleteStaff ==
    \E via \in {"api", "form"}, actor \in StaffActors, pk \in 1..MaxEmployees :
        employee_delete(via, actor, pk)

Dashboard == \E via \in {"api", "view"}, actor \in StaffActors : dashboard(via, actor)

NextStaff ==
    \/ Hire
    \/ EditStaff
    \/ PatchStaff
    \/ TerminateStaff
    \/ DeleteStaff
    \/ Dashboard

SpecStaff == Init /\ [][NextStaff]_vars

\* C16: created_by of a new employee is the acting user, and no step of the
\* REST API, the HTML edit view or terminate changes the created_by of an
\* employee that exists before and after it.
C16_CreatedByKept ==
    [][ /\ \A k \in DOMAIN employees \cap DOMAIN employees' :
              employees'[k].created_by = employees[k].created_by
        /\ (request'.op = "employee_create" /\ response'.errors = {})
           => /\ response'.pk \in DOMAIN employees' \ DOMAIN employees
              /\ employees'[response'.pk].created_by = request'.actor ]_vars

\* An employee created by one user has just been edited through the HTML
\* form by another.
C16_Witness ==
    /\ request.op = "employee_update"
    /\ request.via = "form"
    /\ request.actor = "admin"
    /\ response.errors = {}
    /\ employees[request.pk].created_by = "user1"
    /\ employees[request.pk].employee_id = "EMP002"
    /\ request.pk = 1

\* C17: the dashboard's active_employees is the number of stored employees
\* whose status is 'active', on both interfaces.
C17_ActiveCount ==
    request.op = "dashboard"
    => /\ response.code = 200
       /\ response.active_employees =
             Cardinality(DOMAIN employees)
             - Cardinality({e \in DOMAIN employees :
                               employees[e].status \in EmployeeStatuses \ {"active"}})
       /\ \E active \in SUBSET DOMAIN employees :
             /\ \A e \in DOMAIN employees : e \in active <=> employees[e].status = "active"
             /\ response.active_employees = Cardinality(active)

\* The dashboard was read when one of two employees was not active.
C17_Witness ==
    /\ request.op = "dashboard"
    /\ response.active_employees = 1
    /\ response.total_employees = 2
    /\ \E e \in DOMAIN employees : employees[e].status = "terminated"

-----------------------------------------------------------------------------
(* The reporting structure *)

\* PATCH bodies and form posts that set the manager: any stored employee, or
\* none.
PatchManager ==
    \E actor \in StaffActors, pk \in DOMAIN employees,
       manager \in DOMAIN employees \cup {None} :
        EmployeeWrite("api", actor, pk, [NoEmployeeData EXCEPT !.manager = manager], TRUE)

EditManager ==
    \E actor \in StaffActors, pk \in DOMAIN employees, manager \in DOMAIN employees :
        EmployeeWrite("form", actor, pk,
                      [EmployeeData(employees[pk].employee_id, employees[pk].email,
                                    1, 0, Missing, Missing) EXCEPT !.manager = manager],
                      FALSE)

NextManagers == Hire \/ PatchManager \/ EditManager \/ DeleteStaff

SpecManagers == Init /\ [][NextManagers]_vars

\* C19: the manager relation is a forest: following manager edges from an
\* employee never leads back to that employee (in one step or in several).
C19_ManagerForest ==
    \A n \in 1..Cardinality(DOMAIN employees) :
        \A path \in [1..n -> DOMAIN employees] :
            ~ (/\ \A i \in 1..(n - 1) : employees[path[i]].manager = path[i + 1]
               /\ employees[path[n]].manager = path[1])

-----------------------------------------------------------------------------
(* Department and Position: create, update, delete *)

\* The REST viewsets carry IsHROrReadOnly; department_add, department_update,
\* position_add and position_update carry login_required only.
WritePermitted(via, actor) == via # "api" \/ IsHROrReadOnly_write(actor)

Forbidden(pk) == Resp(403, {"permission denied"}, pk, None)

Protected_cascading(column, pk) == FALSE

\* on_delete=models.PROTECT on Employee.department and Employee.position:
\* a row some employee refers to cannot be deleted.
Protected(column, pk) == \E e \in DOMAIN employees : employees[e][column] = pk

\* DepartmentViewSet.create / update and department_add / department_update
\* (pk = None is a create)
DepartmentWrite(via, actor, pk, data) ==
    /\ pk = None => NextPk(departments) <= MaxDepartments
    /\ pk # None => pk \in DOMAIN departments
    /\ request' = Req(IF pk = None THEN "department_create" ELSE "department_update",
                      via, actor, pk, data, <<>>)
    /\ IF ~WritePermitted(via, actor)
       THEN /\ response' = Forbidden(pk)
            /\ UNCHANGED departments
       ELSE IF pk = None
       THEN /\ departments' = Insert(departments, data)
            /\ response' = Resp(IF via = "api" THEN 201 ELSE 302, {},
                                NextPk(departments), None)
       ELSE /\ departments' = [departments EXCEPT ![pk] = data]
            /\ response' = Resp(IF via = "api" THEN 200 ELSE 302, {}, pk, None)
    /\ UNCHANGED <<employees, positions, leaves, attendance, now, inflight>>

\* DepartmentViewSet.destroy: ProtectedError is not caught.
DepartmentDestroy(actor, pk) ==
    /\ pk \in DOMAIN departments
    /\ request' = Req("department_delete", "api", actor, pk, <<>>, <<>>)
    /\ IF ~WritePermitted("api", actor)
       THEN /\ response' = Forbidden(pk)
            /\ UNCHANGED departments
       ELSE IF Protected("department", pk)
       THEN /\ response' = Resp(500, {"ProtectedError"}, pk, None)
            /\ UNCHANGED departments
       ELSE /\ departments' = Without(departments, {pk})
            /\ response' = Resp(204, {}, pk, None)
    /\ UNCHANGED <<employees, positions, leaves, attendance, now, inflight>>

\* PositionViewSet.create and position_add
PositionCreate(via, actor, data) ==
    /\ NextPk(positions) <= MaxPositions
    /\ request' = Req("position_create", via, actor, None, data, <<>>)
    /\ IF ~WritePermitted(via, actor)
       THEN /\ response' = Forbidden(None)
            /\ UNCHANGED positions
       ELSE /\ positions' = Insert(positions, data)
            /\ response' = Resp(IF via = "api" THEN 201 ELSE 302, {},
                                NextPk(positions), None)
    /\ UNCHANGED <<employees, departments, leaves, attendance, now, inflight>>

\* PositionViewSet.destroy
PositionDestroy(actor, pk) ==
    /\ pk \in DOMAIN positions
    /\ request' = Req("position_delete", "api", actor, pk, <<>>, <<>>)
    /\ IF ~WritePermitted("api", actor)
       THEN /\ response' = Forbidden(pk)
            /\ UNCHANGED positions
       ELSE IF Protected("position", pk)
       THEN /\ response' = Resp(500, {"ProtectedError"}, pk, None)
            /\ UNCHANGED positions
       ELSE /\ positions' = Without(positions, {pk})
            /\ response' = Resp(204, {}, pk, None)
    /\ UNCHANGED <<employees, departments, leaves, attendance, now, inflight>>

-----------------------------------------------------------------------------
(* The organisation: departments, positions and the employees in them *)

\* A staff user, a member of the HR group and a user with neither.
OrgActors == {"admin", "hr1", "user1"}

AddDepartment ==
    \E via \in {"api", "view"}, actor \in OrgActors :
        DepartmentWrite(via, actor, None, [is_active |-> TRUE])

EditDepartment ==
    \E via \in {"api", "view"}, actor \in OrgActors, pk \in DOMAIN departments,
       is_active \in BOOLEAN :
        DepartmentWrite(via, actor, pk, [is_active |-> is_active])

DeleteDepartment ==
    \E actor \in OrgActors, pk \in DOMAIN departments : DepartmentDestroy(actor, pk)

AddPosition ==
    \E via \in {"api", "view"}, actor \in OrgActors :
        PositionCreate(via, actor, [min_salary |-> None, max_salary |-> None])

RetitlePosition ==
    \E via \in {"api", "view"}, actor \in OrgActors, pk \in DOMAIN positions :
        PositionUpdate(via, actor, pk, [min_salary |-> None, max_salary |-> None])

DeletePosition ==
    \E actor \in OrgActors, pk \in DOMAIN positions : PositionDestroy(actor, pk)

\* An employee is created in, or moved to, a department and a position; the
\* keys sent may be those of rows that do not exist.
Place ==
    \E pk \in DOMAIN employees \cup {None}, i \in Identities,
       department \in 1..MaxDepartments, position \in 1..MaxPositions :
        EmployeeWrite("api", "admin", pk,
                      [EmployeeData(i[1], i[2], position, 0, Missing, Missing)
                          EXCEPT !.department = department],
                      FALSE)

NextOrg ==
    \/ AddDepartment
    \/ EditDepartment
    \/ DeleteDepartment
    \/ AddPosition
    \/ RetitlePosition
    \/ DeletePosition
    \/ Place

SpecOrg == Init /\ [][NextOrg]_vars

\* C18: deleting a department or a position that an employee refers to fails
\* and changes nothing, and after every step each employee's department and
\* position are stored rows.
C18_ProtectedDelete ==
    [][ /\ (/\ request'.op = "department_delete"
            /\ \E e \in DOMAIN employees : employees[e].department = request'.pk)
           => (response'.errors # {} /\ response'.code \in {403, 500}
               /\ UNCHANGED <<employees, departments, positions>>)
        /\ (/\ request'.op = "position_delete"
            /\ \E e \in DOMAIN employees : employees[e].position = request'.pk)
           => (response'.errors # {} /\ response'.code \in {403, 500}
               /\ UNCHANGED <<employees, departments, positions>>)
        /\ \A e \in DOMAIN employees' :
              /\ employees'[e].department \in DOMAIN departments'
              /\ employees'[e].position \in DOMAIN positions' ]_vars

\* An HR user's delete of the department two employees share was refused.
C18_Witness ==
    /\ request.op = "department_delete"
    /\ request.actor = "hr1"
    /\ response.errors = {"ProtectedError"}
    /\ request.pk \in DOMAIN departments
    /\ Cardinality({e \in DOMAIN employees : employees[e].department = request.pk}) = 2

OrgWriteOps ==
    {"department_create", "department_update", "department_delete",
     "position_create", "position_update", "position_delete"}

\* C20: a create, update or delete of a Department or a Position by an actor
\* without the elevated role is refused on every interface and leaves the
\* departments and positions unchanged.
C20_OrgWritesNeedRole ==
    [][ (request'.op \in OrgWriteOps /\ ~IsHR(request'.actor))
        => (response'.errors # {} /\ UNCHANGED <<departments, positions>>) ]_vars

-----------------------------------------------------------------------------
(* Who sees, and who decides, which leave request *)

\* LeaveRequestViewSet.list (via = "api": the rows of get_queryset) and
\* leave_request_list (via = "view": LeaveRequest.objects.all(), no status
\* filter, one page).
LeaveList(via, actor) ==
    /\ request' = Req("leave_list", via, actor, None, <<>>, <<>>)
    /\ response' = Resp(200, {}, None, None) @@ [results |-> Fetchable(via, actor)]
    /\ UNCHANGED <<employees, positions, departments, leaves, attendance, now, inflight>>

\* The callers: a staff user and a user without any role, both without an
\* employee record, and the two users of the linked employees.
VisibilityActors == {"admin", "guest", "user1", "hr1"}

\* A one-day request for any employee; any authenticated user may file it.
FileLeave ==
    \E employee \in 1..MaxEmployees :
        LeaveCreate("user1", LeaveData(employee, 0, 0, MissingS))

ListLeaves ==
    \E via \in Interfaces, actor \in VisibilityActors : LeaveList(via, actor)

FetchLeave ==
    \E actor \in VisibilityActors, pk \in DOMAIN leaves : LeaveRetrieve(actor, pk)

NextVisibility ==
    \/ CreateLinkedEmployee
    \/ FileLeave
    \/ ListLeaves
    \/ FetchLeave
    \/ ApproveLeave
    \/ RejectLeave

SpecVisibility == Init /\ [][NextVisibility]_vars

\* The actor holds the elevated role or the request belongs to the actor's
\* own employee record.
ElevatedOrOwn(user, leave) ==
    \/ IsHR(user)
    \/ \E e \in DOMAIN employees : employees[e].user = user /\ leave.employee = e

\* C21: a list answers exactly the stored leave requests for which the actor
\* holds the elevated role or whose employee is the actor's own employee
\* record, and a single fetch succeeds for exactly those.
C21_VisibleIffElevatedOrOwn ==
    [][ /\ request'.op = "leave_list"
           => response'.results =
                  {k \in DOMAIN leaves : ElevatedOrOwn(request'.actor, leaves[k])}
        /\ (request'.op = "leave_retrieve" /\ request'.pk \in DOMAIN leaves)
           => (response'.code = 200
               <=> ElevatedOrOwn(request'.actor, leaves[request'.pk])) ]_vars

-----------------------------------------------------------------------------
(* Employee writes that break several rules at once *)

\* Bodies that break any subset of the rules: an employee_id and an email
\* that may be taken, date_left absent or before date_joined, salary absent
\* or above the maximum of position 1.
CandidateBodies ==
    {EmployeeData(id, email, 1, MaxDay, left, sal) :
        id \in {"EMP001", "EMP002"}, email \in {"john@x", "jane@x"},
        left \in {Missing, 0}, sal \in {Missing, MaxMoney}}

CreateCandidate ==
    \E via \in {"api", "form"}, data \in CandidateBodies :
        EmployeeWrite(via, "admin", None, data, FALSE)

EditCandidate ==
    \E via \in {"api", "form"}, pk \in DOMAIN employees, data \in CandidateBodies :
        EmployeeWrite(via, "admin", pk, data, FALSE)

NextRules == CreateCandidate \/ EditCandidate

SpecRules == Init /\ [][NextRules]_vars

\* The errors owed to the candidate of the step: one per rule it breaks.
OwedErrors ==
    Err(~validate_employee_id(request'.data.employee_id, request'.pk),
        "employee_id: exists")
    \cup Err(~validate_email(request'.data.email, request'.pk), "email: exists")
    \cup Err(DateSet(request'.row.date_left)
             /\ request'.row.date_left < request'.row.date_joined,
             "Date left cannot be before date joined.")
    \cup Err(OutsideRange(request'.row.salary, positions[request'.row.position]),
             "Salary cannot exceed position maximum")

\* C22: an employee create or edit that breaks several of the rules (taken
\* employee_id, taken email, date_left before date_joined, salary outside the
\* position's range) is answered with the error of each rule it breaks.
C22_AllErrorsReported ==
    [][ (AnswersEmployeeWrite /\ Cardinality(OwedErrors) >= 2)
        => OwedErrors \subseteq response'.errors ]_vars

-----------------------------------------------------------------------------
(* Interleaved employee writes: what the refused writer is told *)

\* The step saves a write that passed validation earlier.
Saves == \E slot \in Slots : inflight[slot] # Idle /\ inflight'[slot] = Idle

\* C23: a write that passed the pre-write uniqueness check and is then
\* refused by the unique constraint of the table is answered like a failed
\* validation (400, or the form again) with a uniqueness error of the field,
\* not with an internal failure.
C23_StorageRefusalIsValidationError ==
    [][ (Saves /\ ~EmployeeUniqueInDb(request'.row, request'.pk))
        => /\ response' = Invalid(request'.via, response'.errors, request'.pk)
           /\ response'.errors # {}
           /\ response'.errors \subseteq {"employee_id: exists", "email: exists"} ]_vars

-----------------------------------------------------------------------------
(* The dashboard's recent hires *)

\* Employees who joined on any day of the model.
HireOn ==
    \E id \in Identities, joined \in Days :
        EmployeeWrite("api", "admin", None,
                      EmployeeData(id[1], id[2], 1, joined, Missing, Missing), FALSE)

\* A day passes; the clock runs past the window.
Pass ==
    /\ now < MaxRecentNow
    /\ now' = now + 1
    /\ request' = NoRequest
    /\ response' = NoResponse
    /\ UNCHANGED <<employees, positions, departments, leaves, attendance, inflight>>

ShowRecent == \E via \in {"api", "view"} : dashboard(via, "admin")

NextRecent == HireOn \/ Pass \/ ShowRecent

SpecRecent == Init /\ [][NextRecent]_vars

\* C24: the recent hires of a dashboard hold only employees who joined within
\* the window, at most the limit of the interface, and, when more employees
\* qualify than the limit, no employee left out joined later than a listed one.
C24_RecentHires ==
    request.op = "dashboard"
    => LET listed == {response.recent_hires[i] : i \in DOMAIN response.recent_hires}
           qualify == {e \in DOMAIN employees :
                          employees[e].date_joined >= now - RecentWindow}
           limit == IF request.via = "api" THEN ApiRecentLimit ELSE ViewRecentLimit
       IN  /\ listed \subseteq qualify
           /\ Len(response.recent_hires) <= limit
           /\ Cardinality(qualify) > limit
              => \A e \in listed : \A o \in qualify \ listed :
                    employees[e].date_joined >= employees[o].date_joined

-----------------------------------------------------------------------------
(* Attendance: the status column *)

\* C25: every stored attendance record has a status among present, absent,
\* half_day, late and on_leave, whatever status bulk_mark was called with.
C25_StatusAmongChoices ==
    \A k \in DOMAIN attendance : attendance[k].status \in AttendanceStatuses

-----------------------------------------------------------------------------
(* Approve and reject that run next to each other *)

\* approve / reject as two steps of a request that runs next to others: the
\* handler fetches the leave request and checks its status ...
BeginDecision(slot, op, via, actor, pk, rejection_reason) ==
    /\ inflight[slot] = Idle
    /\ pk \in DOMAIN leaves
    /\ LET req == Req(op, via, actor, pk, [rejection_reason |-> rejection_reason], <<>>)
       IN  /\ request' = req
           /\ IF pk \notin Fetchable(via, actor)
              THEN /\ response' = NotFound(pk)
                   /\ UNCHANGED inflight
              ELSE IF ~IsPending(leaves[pk])
              THEN /\ response' = Resp(IF via = "api" THEN 400 ELSE 302,
                                       {IF op = "approve"
                                        THEN "Only pending requests can be approved"
                                        ELSE "Only pending requests can be rejected"},
                                       pk, None)
                   /\ UNCHANGED inflight
              ELSE /\ response' = Resp(0, {}, pk, None)
                   /\ inflight' = [inflight EXCEPT ![slot] =
                                      [state |-> "fetched", req |-> req,
                                       leave |-> leaves[pk]]]
    /\ UNCHANGED <<employees, positions, departments, leaves, attendance, now>>

\* ... and later sets the fields on the instance it fetched and saves it:
\* save() writes every column of that instance.
CommitDecision(slot) ==
    /\ inflight[slot] # Idle
    /\ inflight[slot].state = "fetched"
    /\ LET req == inflight[slot].req
           leave == inflight[slot].leave
       IN  /\ request' = req
           /\ leaves' = [leaves EXCEPT ![req.pk] =
                            IF req.op = "approve" THEN Approved(leave, req.actor)
                            ELSE Rejected(leave, req.actor,
                                          GetOr(req.data.rejection_reason, ""))]
           /\ response' = Resp(IF req.via = "api" THEN 200 ELSE 302, {}, req.pk,
                               IF req.via = "api" THEN total_days(leave) ELSE None)
    /\ inflight' = [inflight EXCEPT ![slot] = Idle]
    /\ UNCHANGED <<employees, positions, departments, attendance, now>>

\* A pending request of the first employee.
FilePending == LeaveCreate("user1", LeaveData(1, 0, MaxDay, MissingS))

StartApprove ==
    \E slot \in Slots, via \in Interfaces, actor \in {"admin", "user1"},
       pk \in DOMAIN leaves :
        BeginDecision(slot, "approve", via, actor, pk, MissingS)

StartReject ==
    \E slot \in Slots, via \in Interfaces, actor \in {"admin", "user1"},
       pk \in DOMAIN leaves, rejection_reason \in RejectionReasons :
        BeginDecision(slot, "reject", via, actor, pk, rejection_reason)

FinishDecision == \E slot \in Slots : CommitDecision(slot)

NextDecisions ==
    \/ CreateLinkedEmployee
    \/ FilePending
    \/ StartApprove
    \/ StartReject
    \/ FinishDecision
    \/ Tick

SpecDecisions == Init /\ [][NextDecisions]_vars

\* C26: of the approve and reject calls that run side by side on one pending
\* leave request at most one succeeds: a call succeeds only on a request
\* that is still pending, so the request is decided once.
C26_DecidedOnce ==
    [][ (/\ request'.op \in {"approve", "reject"}
         /\ response'.code \in {200, 302} /\ response'.errors = {})
        => leaves[request'.pk].status = "pending" ]_vars

-----------------------------------------------------------------------------
(* Terminating an employee: the two dates *)

\* C27: every stored employee with both date_joined and date_left has
\* date_left >= date_joined, also after terminate, whatever date_left the
\* request supplied.
C27_LeftNotBeforeJoined ==
    \A e \in DOMAIN employees :
        (DateSet(employees[e].date_left) /\ DateSet(employees[e].date_joined))
        => employees[e].date_left >= employees[e].date_joined

-----------------------------------------------------------------------------
(* Salaries and the ranges of the positions, as stored *)

\* C28: every stored employee with a salary lies within the bounds set on
\* its position, also after the position's min_salary or max_salary was
\* edited and after the employee was moved to another position.
C28_StoredSalaryWithinRange ==
    \A e \in DOMAIN employees :
        employees[e].position \in DOMAIN positions
        => ~OutsideRange(employees[e].salary, positions[employees[e].position])

-----------------------------------------------------------------------------
(* The dashboard's breakdowns *)

\* Employees of two employment types, in any stored department.
HireTyped ==
    \E id \in Identities, department \in DOMAIN departments,
       employment_type \in {"FT", "PT"} :
        EmployeeWrite("api", "admin", None,
                      [EmployeeData(id[1], id[2], 1, 0, Missing, Missing)
                          EXCEPT !.department = department,
                                 !.employment_type = employment_type],
                      FALSE)

\* An employee goes on leave or comes back.
SetStatus ==
    \E pk \in DOMAIN employees, status \in {"active", "on_leave"} :
        EmployeeWrite("api", "admin", pk, [NoEmployeeData EXCEPT !.status = status], TRUE)

OpenDepartment == DepartmentWrite("api", "admin", None, [is_active |-> TRUE])

SwitchDepartment ==
    \E pk \in DOMAIN departments, is_active \in BOOLEAN :
        DepartmentWrite("api", "admin", pk, [is_active |-> is_active])

Stats == dashboard("api", "hr1")

NextStats == HireTyped \/ SetStatus \/ OpenDepartment \/ SwitchDepartment \/ Stats

SpecStats == Init /\ [][NextStats]_vars

\* The sum of the values of a dictionary.
RECURSIVE SumValues(_)
SumValues(dict) ==
    IF DOMAIN dict = {} THEN 0
    ELSE LET k == CHOOSE k \in DOMAIN dict : TRUE
         IN  dict[k] + SumValues([j \in DOMAIN dict \ {k} |-> dict[j]])

\* The active employees whose department is inactive.
ActiveOutside ==
    {e \in DOMAIN employees :
        /\ employees[e].status = "active"
        /\ ~departments[employees[e].department].is_active}

\* C29: in every answer of dashboard_stats the values of
\* employees_by_employment_type sum to active_employees; the values of
\* employees_by_department sum to the number of active employees in active
\* departments, so to active_employees at most, and to exactly that when no
\* active employee is in an inactive department; total_departments is the
\* number of keys of employees_by_department.
C29_Breakdowns ==
    (request.op = "dashboard" /\ request.via = "api")
    => /\ SumValues(response.employees_by_employment_type) = response.active_employees
       /\ SumValues(response.employees_by_department)
              = response.active_employees - Cardinality(ActiveOutside)
       /\ SumValues(response.employees_by_department) <= response.active_employees
       /\ SumValues(response.employees_by_department) = response.active_employees
              <=> ActiveOutside = {}
       /\ response.total_departments = Cardinality(DOMAIN response.employees_by_department)
       /\ response.active_employees
              = Cardinality({e \in DOMAIN employees : employees[e].status = "active"})

\* Two active employees, one of them in a department that was deactivated.
C29_Witness ==
    /\ request.op = "dashboard" /\ request.via = "api"
    /\ response.active_employees = 2
    /\ Cardinality(DOMAIN departments) = 2
    /\ response.total_departments = 1
    /\ SumValues(response.employees_by_department) = 1
    /\ SumValues(response.employees_by_employment_type) = 2
    /\ ActiveOutside # {}

-----------------------------------------------------------------------------
(* Who decides which leave request through the REST API *)

\* The employee record linked to the actor of the step, if any.
OwnRecords == {e \in DOMAIN employees : employees[e].user = request'.actor}

=============================================================================
